---- MODULE Spec2Model ----
(***************************************************************************)
(* Model of the code execution sandbox of diono-autogen-ai                 *)
(* (backend/app/sandbox_runner.py): SandboxRunner.execute submits          *)
(* _execute_sync to a thread pool of SANDBOX_MAX_WORKERS workers; each     *)
(* execution creates a temporary directory, ensures the image, starts a    *)
(* container, waits for it, captures its logs and removes it;              *)
(* SandboxRunner.cleanup shuts the pool down and removes exited            *)
(* containers.  Every call on the Docker client is one step, taken with    *)
(* the code that follows it up to the next call; a call may fail, which    *)
(* the model draws nondeterministically within MaxFaults.                  *)
(***************************************************************************)
EXTENDS Integers, Sequences, FiniteSets, TLC

\* ---- bounds of the model -------------------------------------------------
NumRequests == 3
MaxFaults == 1
\* WebSocket connections that are opened, and messages each of them sends
NumSockets == 2
MaxMessages == 1
\* settings.SANDBOX_MAX_WORKERS (config.py:41 sets 4; configurable), kept small
SANDBOX_MAX_WORKERS == 2

Requests == 1..NumRequests
\* identifiers the Docker daemon hands out; 0 is "no container" (None)
ContainerIds == 1..NumRequests
\* a container on the same daemon that another client of the daemon created
ForeignIds == {NumRequests + 1}
\* names tempfile can hand out in the temp root; 0 is "no directory"
DirNames == 1..NumRequests
\* exit statuses a program can end with
ExitCodes == {0, 1}
\* local `result` not yet assigned / a wait result without 'StatusCode'
NoResult == -2
NoStatusCode == -1

VARIABLES
    client,             \* SandboxRunner.client is not None
    executor_shutdown,  \* ThreadPoolExecutor.shutdown was called
    work_queue,         \* work items submitted to the pool, not yet started
    busy,               \* pool workers that are running a work item
    pc,                 \* position of each execute call
    tmpdir,             \* the TemporaryDirectory of each call (0: none)
    dirs,               \* directories existing in the temp root
    container,          \* the container handle of each call (0: none)
    cstatus,            \* Docker daemon: status of every container id
    cached,             \* Docker daemon: the image is available locally
    registry_has_image, \* the registry can serve the image to a pull
    called,             \* a call on the Docker client has been made
    result,             \* local `result` of container.wait
    exc,                \* exception `e` caught by the inner handler
    remove_failed,      \* a container.remove() of the call has raised
    returned,           \* the _execute_sync call that returned in the last step
    delivered,          \* results execute has returned to its caller
    faults,             \* failures of the environment drawn so far
    phase,              \* main.py: "starting", "serving" or "stopped"
    cleanup_log,        \* logger.error messages of cleanup() in the last step
    language,           \* catalog: the language tag that is looked up
    image,              \* catalog: result of _get_image_for_language
    extension,          \* catalog: result of _get_file_extension
    command,            \* catalog: result of _get_command_for_language
    looked_up,          \* catalog: the lookups that have been made
    settings,           \* config.py: the Settings object
    limits,             \* Docker daemon: the limits each container was started with
    timeout,            \* per call: the timeout supplied, used and given to wait
    loop_calls,         \* the Docker calls made on the thread of the event loop
    active_connections, \* ConnectionManager.active_connections (0: no entry)
    ws,                 \* per WebSocket: its handler and its client
    sent                \* per WebSocket: the messages send_json has sent on it

vars == <<client, executor_shutdown, work_queue, busy, pc, tmpdir, dirs,
          container, cstatus, cached, result, exc, returned,
          delivered, faults, called, remove_failed, phase, cleanup_log,
          registry_has_image, language, image, extension, command, looked_up,
          settings, limits, timeout, loop_calls, active_connections, ws, sent>>

\* the variables of the catalog lookups, and all the others
catalog_vars == <<language, image, extension, command, looked_up>>
sandbox_vars ==
    <<client, executor_shutdown, work_queue, busy, pc, tmpdir, dirs, container,
      cstatus, cached, result, exc, returned, delivered, faults, called,
      remove_failed, phase, cleanup_log, registry_has_image, settings, limits,
      timeout, loop_calls>>

\* the variables of the WebSocket endpoint
ws_vars == <<active_connections, ws, sent>>

\* the variables that no step of SandboxRunner changes
app_vars == <<phase, registry_has_image, settings, loop_calls>>
\* ---- CodeExecutionResponse values ----------------------------------------
\* error texts: tag is the fixed part of the text, cause/code the formatted part
NoError == [tag |-> "None", cause |-> "", code |-> 0]
ClientUnavailable == [tag |-> "Docker client not available", cause |-> "", code |-> 0]
\* (variant for C11: the error text of a failed run does not tell the status)
ExitCodeErrorWithoutCode(c) == [tag |-> "Exit code: ", cause |-> "", code |-> 0]

\* f"Exit code: {result['StatusCode']}"
ExitCodeError(c) == [tag |-> "Exit code: ", cause |-> "", code |-> c]
TimeoutOrError(e) == [tag |-> "Execution timeout or error: ", cause |-> e, code |-> 0]
RawError(e) == [tag |-> "", cause |-> e, code |-> 0]

\* output texts: the logs of container c, or the empty string
NoOutput == [logs_of |-> 0]
LogsOf(c) == [logs_of |-> c]

NoResponse == [success |-> FALSE, output |-> NoOutput, error |-> NoError, set |-> FALSE]
Response(s, o, e) == [success |-> s, output |-> o, error |-> e, set |-> TRUE]

\* sandbox_runner.py:92-97
UnavailableResponse == Response(FALSE, NoOutput, ClientUnavailable)
\* (variant for C29: the outer handler returns the failure without its error)
OuterExceptWithoutError(e) == Response(FALSE, NoOutput, NoError)

\* sandbox_runner.py:182-190, error=str(e)
OuterExcept(e) == Response(FALSE, NoOutput, RawError(e))
\* sandbox_runner.py:166-180
InnerExcept(e) == Response(FALSE, NoOutput, TimeoutOrError(e))
\* (variant for C10: the logs are dropped from the result of a run that exits 0)
StatusResponseWithoutLogs(status, logs) ==
    IF status = 0
    THEN Response(TRUE, NoOutput, NoError)
    ELSE Response(FALSE, logs, ExitCodeError(status))

\* (variant for C28: the status of the container is not looked at)
StatusResponseAlwaysSuccess(status, logs) == Response(TRUE, logs, NoError)

\* sandbox_runner.py:151-164
StatusResponse(status, logs) ==
    IF status = 0
    THEN Response(TRUE, logs, NoError)
    ELSE Response(FALSE, logs, ExitCodeError(status))

\* a return of _execute_sync: the request, the response it hands to the caller
\* of execute, the locals `result` and `e` as they were at the return, and
\* whether a container.remove() of the call has raised, and the position
\* `at` which the call was when it returned
Returned(r, resp, res, e, rf, at) ==
    [request |-> r, response |-> resp, result |-> res, exc |-> e,
     remove_failed |-> rf, at |-> at]
NoReturn == Returned(0, NoResponse, NoResult, "", FALSE, "idle")

\* ---- helpers --------------------------------------------------------------
Min(S) == CHOOSE x \in S : \A y \in S : x <= y

\* one of the names of S that are not used, the n-th if it is among them
Unused(S, used, n) == IF n \in S \ used THEN n ELSE Min(S \ used)

\* (variant for C8: the code is written to one fixed directory)
FixedTmpdir(r, existing) == 1

\* tempfile.TemporaryDirectory() in call r: mkdtemp makes a directory of a
\* random name that does not exist in the temp root
NewTmpdir(r, existing) == Unused(DirNames, existing, r)

\* containers.run in call r: the daemon gives the new container an id that
\* no container has or had
NewContainerId(r, status) ==
    Unused(ContainerIds, {c \in ContainerIds : status[c] # "absent"}, r)

\* a failure of the environment may be drawn
MayFail == faults < MaxFaults

\* what cleanup() has logged with logger.error: nothing, or its one message
NoLog == {}
CleanupFailed == {"Cleanup failed"}

\* a step outside cleanup() and the event handlers of main.py
Outside ==
    /\ cleanup_log' = NoLog
    /\ UNCHANGED app_vars
    /\ UNCHANGED catalog_vars
    /\ UNCHANGED ws_vars

\* such a step that starts no container and handles no timeout
Elsewhere ==
    /\ Outside
    /\ UNCHANGED <<limits, timeout>>

\* an Optional[int]: None, or the integer n
None == <<>>
Some(n) == <<n>>

\* bool(x) of an Optional[int]: None and 0 are false
Truthy(x) == x # None /\ x[1] # 0

\* the Python expression `a or b`
Or(a, b) == IF Truthy(a) THEN a ELSE b

\* the timeout of a call of execute: the argument `supplied`, the local
\* variable `timeout` once line 200 has assigned it (None before), and the
\* keyword `timeout` that container.wait was called with (None: not called)
Timeout(supplied, local, kw) ==
    [supplied |-> supplied, timeout |-> local, wait_timeout |-> kw]

\* no caller supplies a timeout, as in the websocket endpoint
NoTimeoutSupplied == timeout = [r \in Requests |-> Timeout(None, None, None)]

\* config.py: the values of class Settings that the sandbox reads (the CPU
\* limit, a float, in thousandths of a core)
DefaultSettings ==
    [MAX_EXECUTION_TIME |-> 300,
     SANDBOX_MEMORY_LIMIT |-> "2g",
     SANDBOX_CPU_LIMIT |-> 2000,
     SANDBOX_NETWORK_ENABLED |-> TRUE]

\* a container the daemon started with no limit at all
NoLimits == [mem_limit |-> "", cpu_quota |-> 0, network_disabled |-> FALSE]

\* the WebSocket objects of the connections, and the session ids of the
\* paths /ws/{session_id} they are opened on
Sockets == 1..NumSockets
SessionIds == {"a", "b"}

\* a WebSocket that no client has opened yet
NewSocket ==
    [pc |-> "new", session_id |-> "", open |-> FALSE, received |-> 0,
     executes |-> 0, result |-> NoResponse]

\* the ConnectionManager after __init__, with no connection yet
InitManager ==
    /\ active_connections = [sid \in SessionIds |-> 0]
    /\ ws = [w \in Sockets |-> NewSocket]
    /\ sent = [w \in Sockets |-> <<>>]

\* the SandboxRunner after __init__, all but the containers of the daemon
InitSandbox ==
    /\ InitManager
    /\ client \in BOOLEAN
    /\ executor_shutdown = FALSE
    /\ work_queue = <<>>
    /\ busy = 0
    /\ pc = [r \in Requests |-> "idle"]
    /\ tmpdir = [r \in Requests |-> 0]
    /\ dirs = {}
    /\ container = [r \in Requests |-> 0]
    /\ cached = FALSE
    /\ registry_has_image \in BOOLEAN
    /\ result = [r \in Requests |-> NoResult]
    /\ exc = [r \in Requests |-> ""]
    /\ returned = NoReturn
    /\ delivered = [r \in Requests |-> 0]
    /\ faults = 0
    /\ called = FALSE
    /\ remove_failed = [r \in Requests |-> FALSE]
    /\ cleanup_log = NoLog
    /\ limits = [c \in ContainerIds |-> NoLimits]
    /\ loop_calls = {}

\* no lookup in the catalog is going on
CatalogIdle ==
    /\ language = <<>>
    /\ image = ""
    /\ extension = <<>>
    /\ command = <<>>
    /\ looked_up = {}

\* a SandboxRunner in an application that serves requests, alone on its daemon
Init ==
    /\ InitSandbox
    /\ NoTimeoutSupplied
    /\ CatalogIdle
    /\ settings = DefaultSettings
    /\ cstatus = [c \in ContainerIds |-> "absent"]
    /\ phase = "serving"

\* ---- SandboxRunner.execute and the thread pool ----------------------------
\* (variant for C12: the pool takes the work item and execute raises after that)
SubmitThenRaise(r) ==
    /\ pc[r] = "idle"
    /\ \A q \in Requests : q < r => pc[q] # "idle"
    /\ IF client /\ executor_shutdown
       THEN /\ pc' = [pc EXCEPT ![r] = "raised"]
            /\ work_queue' = Append(work_queue, r)
       ELSE /\ pc' = [pc EXCEPT ![r] = "queued"]
            /\ work_queue' = IF client THEN Append(work_queue, r) ELSE work_queue
    /\ UNCHANGED <<client, executor_shutdown, busy, tmpdir, dirs, container,
                   cstatus, cached, result, exc, delivered, faults>>
    /\ returned' = NoReturn
    /\ UNCHANGED <<called, remove_failed>>
    /\ timeout' = [timeout EXCEPT ![r].timeout =
                       Or(timeout[r].supplied, Some(settings.MAX_EXECUTION_TIME))]
    /\ UNCHANGED limits
    /\ Outside

\* timeout = timeout or settings.MAX_EXECUTION_TIME, then
\* loop.run_in_executor(self.executor, ...): a pool that was shut down refuses
\* the work item (RuntimeError); with executor None the loop's default
\* executor takes it, which has no bound the model can reach.  Requests are
\* numbered in the order in which they are submitted.
Submit(r) ==
    /\ pc[r] = "idle"
    /\ \A q \in Requests : q < r => pc[q] # "idle"
    /\ IF client /\ executor_shutdown
       THEN /\ pc' = [pc EXCEPT ![r] = "raised"]
            /\ UNCHANGED work_queue
       ELSE /\ pc' = [pc EXCEPT ![r] = "queued"]
            /\ work_queue' = IF client THEN Append(work_queue, r) ELSE work_queue
    /\ UNCHANGED <<client, executor_shutdown, busy, tmpdir, dirs, container,
                   cstatus, cached, result, exc, delivered, faults>>
    /\ returned' = NoReturn
    /\ UNCHANGED <<called, remove_failed>>
    /\ timeout' = [timeout EXCEPT ![r].timeout =
                       Or(timeout[r].supplied, Some(settings.MAX_EXECUTION_TIME))]
    /\ UNCHANGED limits
    /\ Outside

\* (variant for C5: the worker of a work item that has ended stays taken)
NoRelease(n) == n

\* workers of the pool still busy once the work item of a request has ended
Release(n) == n - 1

\* _execute_sync returns resp: the work item ends, its worker is free again and
\* `await loop.run_in_executor(...)` hands resp to the caller of execute; the
\* locals of the call are gone.  `taken` is the number of busy workers with
\* the one of this call.
ReturnFrom(r, resp, rf, taken) ==
    /\ returned' = Returned(r, resp, result[r], exc[r], remove_failed[r] \/ rf,
                          pc[r])
    /\ remove_failed' = [remove_failed EXCEPT ![r] = FALSE]
    /\ pc' = [pc EXCEPT ![r] = "done"]
    /\ delivered' = [delivered EXCEPT ![r] = @ + 1]
    /\ busy' = IF client THEN Release(taken) ELSE busy
    /\ result' = [result EXCEPT ![r] = NoResult]
    /\ exc' = [exc EXCEPT ![r] = ""]

\* a return of a call that a worker took in an earlier step
Return(r, resp, rf) == ReturnFrom(r, resp, rf, busy)

\* (variant for C7: the directory is deleted at the end of a successful run
\* only, not by a context manager)
LeaveWithoutDeletionOnFailure(r, resp, used, rf) ==
    /\ dirs' = IF resp.success THEN dirs \ {tmpdir[r]} ELSE dirs
    /\ tmpdir' = IF resp.success THEN [tmpdir EXCEPT ![r] = 0] ELSE tmpdir
    /\ faults' = faults + used
    /\ returned' = Returned(r, resp, result[r], exc[r], remove_failed[r] \/ rf,
                          pc[r])
    /\ remove_failed' = [remove_failed EXCEPT ![r] = FALSE]
    /\ pc' = [pc EXCEPT ![r] = "done"]
    /\ delivered' = [delivered EXCEPT ![r] = @ + 1]
    /\ busy' = IF client THEN busy - 1 ELSE busy
    /\ result' = [result EXCEPT ![r] = NoResult]
    /\ exc' = [exc EXCEPT ![r] = ""]

\* leaving `with tempfile.TemporaryDirectory()` with the value or exception
\* that the outer level turns into resp: __exit__ deletes the directory; an
\* error it raises ends in the outer `except Exception` instead.  `used` is
\* the number of failures this step has drawn already, `rf` whether a
\* container.remove() was among them.
LeaveWith(r, resp, used, rf) ==
    \/ /\ dirs' = dirs \ {tmpdir[r]}
       /\ tmpdir' = [tmpdir EXCEPT ![r] = 0]
       /\ faults' = faults + used
       /\ Return(r, resp, rf)
    \/ /\ faults + used < MaxFaults         \* the deletion fails
       /\ faults' = faults + used + 1
       /\ UNCHANGED <<dirs, tmpdir>>
       /\ Return(r, OuterExcept("OSError"), rf)

\* (variant for C9: the check of self.client is missing)
NoClientCheck(has_client) == TRUE

\* `if not self.client: return CodeExecutionResponse(...)`: the call goes on
ClientCheck(has_client) == has_client

\* tempfile.TemporaryDirectory() and code_file.write_text(code), the code of
\* _execute_sync before its first call on the Docker client
Prepare(r) ==
    \/ /\ tmpdir' = [tmpdir EXCEPT ![r] = NewTmpdir(r, dirs)]
       /\ dirs' = dirs \cup {NewTmpdir(r, dirs)}
       /\ pc' = [pc EXCEPT ![r] = "images_get"]
       /\ busy' = IF client THEN busy + 1 ELSE busy
       /\ UNCHANGED <<result, exc, delivered, faults, remove_failed>>
       /\ returned' = NoReturn
    \/ /\ MayFail                          \* mkdtemp fails: no directory
       /\ faults' = faults + 1
       /\ ReturnFrom(r, OuterExcept("OSError"), FALSE, busy + 1)
       /\ UNCHANGED <<tmpdir, dirs>>
    \/ /\ MayFail                          \* write_text fails, directory deleted
       /\ faults' = faults + 1
       /\ ReturnFrom(r, OuterExcept("OSError"), FALSE, busy + 1)
       /\ UNCHANGED <<tmpdir, dirs>>
    \/ /\ faults + 1 < MaxFaults           \* write_text and the deletion fail
       /\ faults' = faults + 2
       /\ tmpdir' = [tmpdir EXCEPT ![r] = NewTmpdir(r, dirs)]
       /\ dirs' = dirs \cup {NewTmpdir(r, dirs)}
       /\ ReturnFrom(r, OuterExcept("OSError"), FALSE, busy + 1)

\* a worker takes the oldest work item and runs _execute_sync up to its first
\* call on the Docker client
Begin(r) ==
    /\ pc[r] = "queued"
    /\ IF client
       THEN /\ work_queue # <<>>
            /\ Head(work_queue) = r
            /\ busy < SANDBOX_MAX_WORKERS
            /\ work_queue' = Tail(work_queue)
       ELSE UNCHANGED work_queue
    /\ IF ClientCheck(client)
       THEN Prepare(r)
       ELSE /\ returned' = Returned(r, UnavailableResponse, NoResult, "", FALSE,
                                 "queued")
            /\ pc' = [pc EXCEPT ![r] = "done"]
            /\ delivered' = [delivered EXCEPT ![r] = @ + 1]
            /\ UNCHANGED <<busy, result, exc, tmpdir, dirs, faults,
                           remove_failed>>
    /\ UNCHANGED <<client, executor_shutdown, container, cstatus, cached,
                   called>>
    /\ Elsewhere

\* try: self.client.images.get(image); except docker.errors.ImageNotFound
\* leads to the pull
EnsureImage(r) ==
    /\ pc[r] = "images_get"
    /\ \/ /\ client /\ cached
          /\ pc' = [pc EXCEPT ![r] = "containers_run"]
          /\ UNCHANGED <<busy, tmpdir, dirs, result, exc, delivered, faults,
                         remove_failed>>
          /\ returned' = NoReturn
       \/ /\ client /\ ~cached             \* ImageNotFound
          /\ pc' = [pc EXCEPT ![r] = "images_pull"]
          /\ UNCHANGED <<busy, tmpdir, dirs, result, exc, delivered, faults,
                         remove_failed>>
          /\ returned' = NoReturn
       \/ /\ client /\ MayFail             \* any other error of images.get
          /\ LeaveWith(r, OuterExcept("APIError"), 1, FALSE)
       \/ /\ ~client                       \* None has no attribute images
          /\ LeaveWith(r, OuterExcept("AttributeError"), 0, FALSE)
    /\ UNCHANGED <<client, executor_shutdown, work_queue, container, cstatus,
                   cached>>
    /\ called' = (called \/ client)
    /\ Elsewhere

\* (variant for C18: a failing pull is swallowed and the execution goes on)
PullSwallowingFailure(r) ==
    /\ pc[r] = "images_pull"
    /\ cached' = (cached \/ registry_has_image)
    /\ pc' = [pc EXCEPT ![r] = "containers_run"]
    /\ UNCHANGED <<busy, tmpdir, dirs, result, exc, delivered, faults,
                   remove_failed>>
    /\ returned' = NoReturn
    /\ UNCHANGED <<client, executor_shutdown, work_queue, container, cstatus>>
    /\ called' = TRUE
    /\ Elsewhere

\* self.client.images.pull(image), called once, in the handler of
\* ImageNotFound: an image the registry does not have cannot be pulled
Pull(r) ==
    /\ pc[r] = "images_pull"
    /\ \/ /\ registry_has_image
          /\ cached' = TRUE
          /\ pc' = [pc EXCEPT ![r] = "containers_run"]
          /\ UNCHANGED <<busy, tmpdir, dirs, result, exc, delivered, faults,
                         remove_failed>>
          /\ returned' = NoReturn
       \/ /\ registry_has_image /\ MayFail \* the registry cannot be reached
          /\ LeaveWith(r, OuterExcept("APIError"), 1, FALSE)
          /\ UNCHANGED cached
       \/ /\ ~registry_has_image
          /\ LeaveWith(r, OuterExcept("ImageNotFound"), 0, FALSE)
          /\ UNCHANGED cached
    /\ UNCHANGED <<client, executor_shutdown, work_queue, container, cstatus>>
    /\ called' = TRUE
    /\ Elsewhere

\* (variant for C21: the container is started with the network of the daemon)
RunLimitsWithNetwork(s) ==
    [mem_limit |-> s.SANDBOX_MEMORY_LIMIT,
     cpu_quota |-> (s.SANDBOX_CPU_LIMIT * 100000) \div 1000,
     network_disabled |-> FALSE]

\* mem_limit=settings.SANDBOX_MEMORY_LIMIT,
\* cpu_quota=int(settings.SANDBOX_CPU_LIMIT * 100000),
\* network_disabled=not settings.SANDBOX_NETWORK_ENABLED
RunLimits(s) ==
    [mem_limit |-> s.SANDBOX_MEMORY_LIMIT,
     cpu_quota |-> (s.SANDBOX_CPU_LIMIT * 100000) \div 1000,
     network_disabled |-> ~s.SANDBOX_NETWORK_ENABLED]

\* self.client.containers.run(..., detach=True, remove=False)
ContainersRun(r) ==
    /\ pc[r] = "containers_run"
    /\ \/ /\ container' = [container EXCEPT ![r] = NewContainerId(r, cstatus)]
          /\ cstatus' = [cstatus EXCEPT ![NewContainerId(r, cstatus)] = "running"]
          /\ limits' = [limits EXCEPT ![NewContainerId(r, cstatus)] =
                           RunLimits(settings)]
          /\ pc' = [pc EXCEPT ![r] = "wait"]
          /\ UNCHANGED <<busy, tmpdir, dirs, result, exc, delivered, faults,
                         remove_failed>>
          /\ returned' = NoReturn
       \/ /\ MayFail
          /\ LeaveWith(r, OuterExcept("APIError"), 1, FALSE)
          /\ UNCHANGED <<container, cstatus, limits>>
    /\ UNCHANGED <<client, executor_shutdown, work_queue, cached, timeout>>
    /\ called' = TRUE
    /\ Outside

\* the program in a running container ends
ContainerExit(c) ==
    /\ cstatus[c] = "running"
    /\ cstatus' = [cstatus EXCEPT ![c] = "exited"]
    /\ UNCHANGED <<client, executor_shutdown, work_queue, busy, pc, tmpdir,
                   dirs, container, cached, result, exc, delivered, faults>>
    /\ returned' = NoReturn
    /\ UNCHANGED <<called, remove_failed>>
    /\ Elsewhere

\* an exception caught by `except Exception as e` of the inner try
CatchInner(r, e) ==
    /\ exc' = [exc EXCEPT ![r] = e]
    /\ pc' = [pc EXCEPT ![r] = "stop"]

\* (variant for C4: container.wait() is called without the timeout)
WaitForever(status) == FALSE

\* container.wait(timeout=timeout) gives up on a container that is running
\* when the timeout has elapsed
WaitTimesOut(status) == status = "running"

\* result = container.wait(timeout=timeout); the exit status of the program
\* is seen by nobody but this call, which draws it
Wait(r) ==
    /\ pc[r] = "wait"
    /\ \/ /\ cstatus[container[r]] = "exited"
          /\ \E status \in ExitCodes :
                result' = [result EXCEPT ![r] = status]
          /\ pc' = [pc EXCEPT ![r] = "logs"]
          /\ UNCHANGED <<exc, faults>>
       \/ /\ cstatus[container[r]] = "exited"
          /\ MayFail                       \* a reply without 'StatusCode'
          /\ faults' = faults + 1
          /\ result' = [result EXCEPT ![r] = NoStatusCode]
          /\ pc' = [pc EXCEPT ![r] = "logs"]
          /\ UNCHANGED exc
       \/ /\ WaitTimesOut(cstatus[container[r]])  \* the timeout elapses
          /\ CatchInner(r, "ReadTimeout")
          /\ UNCHANGED <<result, faults>>
       \/ /\ cstatus[container[r]] = "removed"   \* docker.errors.NotFound
          /\ CatchInner(r, "NotFound")
          /\ UNCHANGED <<result, faults>>
       \/ /\ MayFail                       \* any other error of the call
          /\ faults' = faults + 1
          /\ CatchInner(r, "APIError")
          /\ UNCHANGED result
    /\ UNCHANGED <<client, executor_shutdown, work_queue, busy, tmpdir, dirs,
                   container, cstatus, cached, delivered, remove_failed>>
    /\ returned' = NoReturn
    /\ called' = TRUE
    /\ timeout' = [timeout EXCEPT ![r].wait_timeout = timeout[r].timeout]
    /\ UNCHANGED limits
    /\ Outside

\* container.remove() of the Docker daemon: only a stopped container that
\* exists can be removed; `ok` is whether the call itself goes through
DaemonRemove(status, c, ok) ==
    IF ok /\ status[c] = "exited"
    THEN [status EXCEPT ![c] = "removed"]
    ELSE status

\* logs = container.logs().decode('utf-8'), then
\* try: container.remove() except: pass, then the result from the status
Logs(r) ==
    /\ pc[r] = "logs"
    /\ \/ /\ cstatus[container[r]] = "removed"   \* docker.errors.NotFound
          /\ CatchInner(r, "NotFound")
          /\ UNCHANGED <<cstatus, faults, busy, tmpdir, dirs, result,
                         delivered, remove_failed>>
          /\ returned' = NoReturn
       \/ /\ MayFail                       \* the call or the decoding fails
          /\ faults' = faults + 1
          /\ CatchInner(r, "APIError")
          /\ UNCHANGED <<cstatus, busy, tmpdir, dirs, result, delivered,
                         remove_failed>>
          /\ returned' = NoReturn
       \/ /\ cstatus[container[r]] # "removed"
          /\ \E removed \in BOOLEAN :
                /\ ~removed => MayFail     \* the remove fails
                /\ cstatus' = DaemonRemove(cstatus, container[r], removed)
                /\ IF result[r] = NoStatusCode   \* KeyError: 'StatusCode'
                   THEN /\ CatchInner(r, "KeyError")
                        /\ faults' = faults + (IF removed THEN 0 ELSE 1)
                        /\ remove_failed' =
                               [remove_failed EXCEPT ![r] = ~removed]
                        /\ UNCHANGED <<busy, tmpdir, dirs, result, delivered>>
                        /\ returned' = NoReturn
                   ELSE LeaveWith(r, StatusResponse(result[r],
                                                    LogsOf(container[r])),
                                  IF removed THEN 0 ELSE 1, ~removed)
    /\ UNCHANGED <<client, executor_shutdown, work_queue, container, cached>>
    /\ called' = TRUE
    /\ Elsewhere

\* container.stop(timeout=1) of the Docker daemon
DaemonStop(status, c) ==
    IF status[c] = "running" THEN [status EXCEPT ![c] = "exited"] ELSE status

\* inner handler: try: container.stop(timeout=1); container.remove()
\* except: pass, then the failure result; a failing stop skips the remove
Stop(r) ==
    /\ pc[r] = "stop"
    /\ \/ /\ cstatus[container[r]] = "removed"   \* docker.errors.NotFound
          /\ UNCHANGED cstatus
          /\ LeaveWith(r, InnerExcept(exc[r]), 0, FALSE)
       \/ /\ cstatus[container[r]] # "removed"
          /\ cstatus' = DaemonRemove(DaemonStop(cstatus, container[r]),
                                     container[r], TRUE)
          /\ LeaveWith(r, InnerExcept(exc[r]), 0, FALSE)
       \/ /\ cstatus[container[r]] # "removed"
          /\ MayFail                       \* the remove fails
          /\ cstatus' = DaemonRemove(DaemonStop(cstatus, container[r]),
                                     container[r], FALSE)
          /\ LeaveWith(r, InnerExcept(exc[r]), 1, TRUE)
       \/ /\ cstatus[container[r]] # "removed"
          /\ MayFail                       \* the stop fails: no remove
          /\ UNCHANGED cstatus
          /\ LeaveWith(r, InnerExcept(exc[r]), 1, FALSE)
    /\ UNCHANGED <<client, executor_shutdown, work_queue, container, cached>>
    /\ called' = TRUE
    /\ Elsewhere

\* ---- SandboxRunner.cleanup ------------------------------------------------
\* (variant for C13: the sweep finds no container to remove)
ListNothing(status) == {}

\* (variant for C15: the list is not filtered by status)
ListAll(status) == {c \in DOMAIN status : status[c] \in {"running", "exited"}}

\* containers.list(all=True, filters={"status": "exited"}): every exited
\* container of the daemon, whoever created it
ListExited(status) == {c \in DOMAIN status : status[c] = "exited"}

\* cleanup(): executor.shutdown(wait=False), then container.remove() of every
\* listed container, each failure swallowed without a message; a failing
\* list is logged as "Cleanup failed"
Sweep ==
    /\ executor_shutdown' = (executor_shutdown \/ client)
    /\ IF client
       THEN \/ /\ cstatus' = [c \in DOMAIN cstatus |->
                                IF c \in ListExited(cstatus)
                                THEN "removed" ELSE cstatus[c]]
               /\ cleanup_log' = NoLog
               /\ UNCHANGED faults
            \/ /\ MayFail                  \* containers.list fails
               /\ faults' = faults + 1
               /\ cleanup_log' = CleanupFailed
               /\ UNCHANGED cstatus
            \/ /\ MayFail                  \* some remove calls fail
               /\ faults' = faults + 1
               /\ cleanup_log' = NoLog
               /\ \E failing \in (SUBSET ListExited(cstatus)) \ {{}} :
                     cstatus' = [c \in DOMAIN cstatus |->
                                   IF c \in ListExited(cstatus) \ failing
                                   THEN "removed" ELSE cstatus[c]]
       ELSE /\ cleanup_log' = NoLog
            /\ UNCHANGED <<cstatus, faults>>
    /\ UNCHANGED <<client, work_queue, busy, pc, tmpdir, dirs, container,
                   cached, result, exc, delivered, remove_failed,
                   registry_has_image, settings, limits, timeout>>
    /\ UNCHANGED catalog_vars
    /\ UNCHANGED ws_vars
    /\ returned' = NoReturn
    /\ called' = (called \/ client)

\* a call of SandboxRunner.cleanup() by any caller
Cleanup ==
    /\ Sweep
    /\ UNCHANGED <<phase, loop_calls>>

\* ---- main.py: the events of the application ------------------------------
\* @app.on_event("startup"): creates the workspace and logs directories
startup_event ==
    /\ phase = "starting"
    /\ phase' = "serving"
    /\ cleanup_log' = NoLog
    /\ returned' = NoReturn
    /\ UNCHANGED <<client, executor_shutdown, work_queue, busy, pc, tmpdir,
                   dirs, container, cstatus, cached, result, exc, delivered,
                   faults, called, remove_failed, registry_has_image,
                   settings, limits, timeout, loop_calls>>
    /\ UNCHANGED catalog_vars
    /\ UNCHANGED ws_vars

\* the Docker calls of a call of cleanup() that takes the daemon from the
\* containers `before` to the containers `after`
SweepCalls(has_client, before, after) ==
    (IF has_client THEN {"containers.list"} ELSE {}) \cup
    (IF after # before THEN {"container.remove"} ELSE {})

\* @app.on_event("shutdown"): the coroutine calls sandbox.cleanup() itself,
\* on the thread of the event loop, then llm.close()
shutdown_event ==
    /\ phase = "serving"
    /\ phase' = "stopped"
    /\ Sweep
    /\ loop_calls' = loop_calls \cup SweepCalls(client, cstatus, cstatus')

\* a request reaches execute_code or the websocket endpoint, which the
\* server lets happen between startup and shutdown only
Serve(r) ==
    /\ phase = "serving"
    /\ Submit(r)

\* ---- specification --------------------------------------------------------
\* the steps a pool worker takes for request r
WorkerStep(r) ==
    \/ Begin(r)
    \/ EnsureImage(r)
    \/ Pull(r)
    \/ ContainersRun(r)
    \/ Wait(r)
    \/ Logs(r)
    \/ Stop(r)

Next ==
    \/ \E r \in Requests : Submit(r)
    \/ \E r \in Requests : WorkerStep(r)
    \/ \E c \in ContainerIds : ContainerExit(c)
    \/ Cleanup

Spec == Init /\ [][Next]_vars

\* the SandboxRunner on a daemon on which another client has left a stopped
\* container
SweepInit ==
    /\ InitSandbox
    /\ NoTimeoutSupplied
    /\ CatalogIdle
    /\ settings = DefaultSettings
    /\ client
    /\ registry_has_image
    /\ cstatus = [c \in ContainerIds \cup ForeignIds |->
                    IF c \in ForeignIds THEN "exited" ELSE "absent"]
    /\ phase = "serving"

SweepSpec == SweepInit /\ [][Next]_vars

\* the application of main.py from its start to after its shutdown
AppInit ==
    /\ InitSandbox
    /\ NoTimeoutSupplied
    /\ CatalogIdle
    /\ settings = DefaultSettings
    /\ cstatus = [c \in ContainerIds |-> "absent"]
    /\ phase = "starting"

AppNext ==
    \/ startup_event
    \/ \E r \in Requests : Serve(r)
    \/ \E r \in Requests : WorkerStep(r)
    \/ \E c \in ContainerIds : ContainerExit(c)
    \/ shutdown_event

AppSpec == AppInit /\ [][AppNext]_vars

\* a restrictive configuration: 512 MB, half a core, no network
RestrictedSettings ==
    [MAX_EXECUTION_TIME |-> 300,
     SANDBOX_MEMORY_LIMIT |-> "512m",
     SANDBOX_CPU_LIMIT |-> 500,
     SANDBOX_NETWORK_ENABLED |-> FALSE]

\* the SandboxRunner under either configuration
LimitsInit ==
    /\ InitSandbox
    /\ NoTimeoutSupplied
    /\ CatalogIdle
    /\ client
    /\ registry_has_image
    /\ settings \in {DefaultSettings, RestrictedSettings}
    /\ cstatus = [c \in ContainerIds |-> "absent"]
    /\ phase = "serving"

LimitsSpec == LimitsInit /\ [][Next]_vars

\* the timeouts that callers supply: none, 0 seconds, 1 second, 2 seconds, ...
SuppliedTimeout(r) == IF r = 1 THEN None ELSE Some(r - 2)

\* the SandboxRunner with callers of execute_code, each with its own timeout
TimeoutInit ==
    /\ InitSandbox
    /\ CatalogIdle
    /\ settings = DefaultSettings
    /\ timeout = [r \in Requests |-> Timeout(SuppliedTimeout(r), None, None)]
    /\ cstatus = [c \in ContainerIds |-> "absent"]
    /\ phase = "serving"

TimeoutSpec == TimeoutInit /\ [][Next]_vars

\* ---- main.py: ConnectionManager and websocket_endpoint ---------------------
\* WebSocketMessage values: the handler of WebSocket `from` has made them
Message(type, from, data) == [type |-> type, from |-> from, data |-> data]

\* ConnectionManager.connect: websocket.accept(), then the entry of the
\* session is set to this WebSocket, whatever it was
connect(sid, w) == [active_connections EXCEPT ![sid] = w]

\* ConnectionManager.disconnect: the entry of the session is deleted,
\* whichever WebSocket it holds
disconnect(sid) == [active_connections EXCEPT ![sid] = 0]

\* ConnectionManager.send_message: send_json on the WebSocket that is
\* registered under the session, if any; an exception of send_json (the
\* client of that WebSocket is gone) is logged and swallowed
send_message(sid, m) ==
    LET to == active_connections[sid]
    IN  IF to # 0 /\ ws[to].open
        THEN [sent EXCEPT ![to] = Append(@, m)]
        ELSE sent

\* a step of the endpoint leaves the sandbox alone
EndpointStep ==
    /\ UNCHANGED sandbox_vars
    /\ UNCHANGED catalog_vars

\* a client opens /ws/{sid}: manager.connect(session_id, websocket).  The
\* WebSocket objects are numbered in the order in which they are opened.
Connect(w, sid) ==
    /\ ws[w].pc = "new"
    /\ \A v \in Sockets : v < w => ws[v].pc # "new"
    /\ active_connections' = connect(sid, w)
    /\ ws' = [ws EXCEPT ![w].pc = "welcome", ![w].session_id = sid,
                         ![w].open = TRUE]
    /\ UNCHANGED sent
    /\ EndpointStep

\* the welcome message
Welcome(w) ==
    /\ ws[w].pc = "welcome"
    /\ sent' = send_message(ws[w].session_id, Message("status", w, "planning"))
    /\ ws' = [ws EXCEPT ![w].pc = "receive"]
    /\ UNCHANGED active_connections
    /\ EndpointStep

\* data = await websocket.receive_json(): a message of the client, or
\* WebSocketDisconnect when the client is gone, or another exception for a
\* frame that is no JSON; both handlers call manager.disconnect(session_id)
Receive(w) ==
    /\ ws[w].pc = "receive"
    /\ \/ /\ ws[w].open
          /\ ws[w].received < MaxMessages
          /\ \E type \in {"ping", "execute", "other"} :
                ws' = [ws EXCEPT ![w].received = @ + 1,
                                 ![w].executes =
                                     IF type = "execute" THEN @ + 1 ELSE @,
                                 ![w].pc = CASE type = "ping" -> "pong"
                                             [] type = "execute" -> "status"
                                             [] OTHER -> "receive"]
          /\ UNCHANGED active_connections
       \/ /\ ws[w].open                    \* a frame that is no JSON
          /\ ws[w].received < MaxMessages
          /\ ws' = [ws EXCEPT ![w].received = @ + 1, ![w].pc = "ended"]
          /\ active_connections' = disconnect(ws[w].session_id)
       \/ /\ ~ws[w].open                   \* WebSocketDisconnect
          /\ ws' = [ws EXCEPT ![w].pc = "ended"]
          /\ active_connections' = disconnect(ws[w].session_id)
    /\ UNCHANGED sent
    /\ EndpointStep

\* the answer to "ping"
Pong(w) ==
    /\ ws[w].pc = "pong"
    /\ sent' = send_message(ws[w].session_id, Message("pong", w, "pong"))
    /\ ws' = [ws EXCEPT ![w].pc = "receive"]
    /\ UNCHANGED active_connections
    /\ EndpointStep

\* "execute": the status message "Executing code..." (TaskStatus.CODING)
Status(w) ==
    /\ ws[w].pc = "status"
    /\ sent' = send_message(ws[w].session_id, Message("status", w, "coding"))
    /\ ws' = [ws EXCEPT ![w].pc = "execute"]
    /\ UNCHANGED active_connections
    /\ EndpointStep

\* the results sandbox.execute returns: of a run that succeeded, of one that
\* failed and of one that timed out
ExecuteResults ==
    {Response(TRUE, LogsOf(1), NoError),
     Response(FALSE, LogsOf(1), ExitCodeError(1)),
     InnerExcept("ReadTimeout")}

\* result = await sandbox.execute(code, language, workspace=workspace); an
\* exception of execute (the pool was shut down) ends the handler in
\* `except Exception`, which calls manager.disconnect(session_id)
Execute(w) ==
    /\ ws[w].pc = "execute"
    /\ IF client /\ executor_shutdown
       THEN /\ ws' = [ws EXCEPT ![w].pc = "ended"]
            /\ active_connections' = disconnect(ws[w].session_id)
       ELSE /\ \E resp \in ExecuteResults :
                  ws' = [ws EXCEPT ![w].pc = "result", ![w].result = resp]
            /\ UNCHANGED active_connections
    /\ UNCHANGED sent
    /\ EndpointStep

\* the result message, with data=result.dict()
Result(w) ==
    /\ ws[w].pc = "result"
    /\ sent' = send_message(ws[w].session_id,
                            Message("result", w, ws[w].result))
    /\ ws' = [ws EXCEPT ![w].pc = "receive", ![w].result = NoResponse]
    /\ UNCHANGED active_connections
    /\ EndpointStep

\* the client of a WebSocket closes the connection or is lost
ClientClose(w) ==
    /\ ws[w].pc \notin {"new", "ended"}
    /\ ws[w].open
    /\ ws' = [ws EXCEPT ![w].open = FALSE]
    /\ UNCHANGED <<active_connections, sent>>
    /\ EndpointStep

\* the steps of the handler of WebSocket w
HandlerStep(w) ==
    \/ Welcome(w)
    \/ Receive(w)
    \/ Pong(w)
    \/ Status(w)
    \/ Execute(w)
    \/ Result(w)

WsNext ==
    \/ \E w \in Sockets, sid \in SessionIds : Connect(w, sid)
    \/ \E w \in Sockets : HandlerStep(w)
    \/ \E w \in Sockets : ClientClose(w)

\* the endpoint of an application that serves requests with a Docker client
WsInit ==
    /\ Init
    /\ client
    /\ registry_has_image

WsSpec == WsInit /\ [][WsNext]_vars

\* while some worker thread can take a step, one of them eventually does:
\* the threads of the pool are scheduled and every call on the Docker client
\* returns
LiveSpec == Spec /\ WF_vars(\E r \in Requests : WorkerStep(r))

\* ---- properties -----------------------------------------------------------
\* request r is in _execute_sync on a worker of the pool
InFlight(r) ==
    pc[r] \in {"images_get", "images_pull", "containers_run", "wait", "logs",
             "stop"}

\* request r is past admission: it has a workspace or a started container
PastAdmission(r) == InFlight(r) /\ (tmpdir[r] # 0 \/ container[r] # 0)

\* the request whose _execute_sync call has just returned (0: none)
Last == returned.request

\* containers that are running on the daemon
Running == {c \in ContainerIds : cstatus[c] = "running"}

\* C1: when _execute_sync has returned, the container that containers.run
\* gave it is removed, on every path the claim lists: exit 0, non-zero exit,
\* wait timeout, failure of logs, of stop, of reading the status (the paths on
\* which no container.remove() call has raised).
C1_ContainerRemovedAtReturn ==
    Last # 0 /\ container[Last] # 0 /\ ~returned.remove_failed
        => cstatus[container[Last]] = "removed"

\* C2: an execution whose container.wait timed out returns success=false with
\* the timeout text as its error, and its container no longer exists (stated
\* for the executions in which neither container.remove() nor the deletion of
\* the workspace failed).
C2_TimeoutResult ==
    /\ Last # 0
    /\ returned.exc = "ReadTimeout"
    /\ ~returned.remove_failed
    /\ tmpdir[Last] = 0
    => /\ returned.response = InnerExcept("ReadTimeout")
       /\ cstatus[container[Last]] = "removed"

\* C3: no more than SANDBOX_MAX_WORKERS executions are past admission, so no
\* more than SANDBOX_MAX_WORKERS containers of the service run at a time.
C3_AtMostKRunning ==
    /\ Cardinality({r \in Requests : PastAdmission(r)}) <= SANDBOX_MAX_WORKERS
    /\ Cardinality(Running) <= SANDBOX_MAX_WORKERS

\* the part of C3 about admission alone
AdmissionBound ==
    Cardinality({r \in Requests : PastAdmission(r)}) <= SANDBOX_MAX_WORKERS

\* every request the pool has accepted has got its result, once
Settled ==
    \A r \in Requests :
        \/ pc[r] \in {"idle", "raised"} /\ delivered[r] = 0
        \/ pc[r] = "done" /\ delivered[r] = 1

C5_SlotsReleased ==
    client => busy = Cardinality({r \in Requests : InFlight(r)})

\* an execution has ended with an internal error and all workers are free
C5_Witness ==
    /\ client
    /\ Last # 0
    /\ returned.response.error.tag \in {"", "Execution timeout or error: "}
    /\ \A r \in Requests : ~InFlight(r)
    /\ busy = 0

\* C6: execute never raises to its caller.
C6_NeverRaises == \A r \in Requests : pc[r] # "raised"

\* C7 as claimed: no workspace of an execution that has returned exists.
C7_WorkspaceDeleted ==
    \A r \in Requests : pc[r] = "done" => tmpdir[r] = 0

\* C7 amended: when an execution has returned, its workspace no longer exists,
\* unless the deletion itself failed, and then the execution has returned the
\* failure result with the error of the deletion.
C7_WorkspaceDeletedUnlessDeletionFails ==
    Last # 0 /\ tmpdir[Last] # 0 => returned.response = OuterExcept("OSError")

\* an execution that timed out has returned and its workspace is deleted
C7_Witness ==
    /\ Last # 0
    /\ returned.exc = "ReadTimeout"
    /\ container[Last] # 0
    /\ tmpdir[Last] = 0
    /\ dirs = {}

\* C8: two executions in flight never have the same workspace directory or
\* the same container.
C8_ExclusiveOwnership ==
    \A r1, r2 \in Requests :
        r1 # r2 /\ InFlight(r1) /\ InFlight(r2) =>
            /\ tmpdir[r1] # 0 => tmpdir[r1] # tmpdir[r2]
            /\ container[r1] # 0 => container[r1] # container[r2]

\* two executions are in flight, each with a workspace and a container
C8_Witness ==
    \E r1, r2 \in Requests :
        /\ r1 # r2
        /\ pc[r1] = "wait" /\ pc[r2] = "wait"
        /\ tmpdir[r1] # 0 /\ tmpdir[r2] # 0
        /\ container[r1] # 0 /\ container[r2] # 0

\* C9: without a Docker client every execute call returns the failure result
\* "Docker client not available"; no call on a Docker client is made, no
\* workspace is created and the daemon is left as it was.
C9_UnavailableShortCircuit ==
    ~client =>
        /\ \A r \in Requests : pc[r] \in {"idle", "queued", "done"}
        /\ \A r \in Requests : tmpdir[r] = 0 /\ container[r] = 0
        /\ dirs = {}
        /\ ~called
        /\ \A c \in ContainerIds : cstatus[c] = "absent"
        /\ ~cached
        /\ Last # 0 => returned.response = UnavailableResponse

\* without a Docker client all requests have got their result
C9_Witness ==
    /\ ~client
    /\ \A r \in Requests : pc[r] = "done"
    /\ returned.response = UnavailableResponse

\* C10 as claimed: an execution whose container.wait returned status 0 returns
\* success=true with the logs of its container and no error.
C10_ExitZeroSucceeds ==
    Last # 0 /\ returned.result = 0 =>
        returned.response = Response(TRUE, LogsOf(container[Last]), NoError)

\* C10 amended: an execution whose container.wait returned status 0, whose
\* logs were captured (no exception reached the inner handler) and whose
\* workspace was deleted returns success=true with the logs of its container
\* and no error.
C10_ExitZeroSucceedsUnlessInternalError ==
    Last # 0 /\ returned.result = 0 /\ returned.exc = "" /\ tmpdir[Last] = 0 =>
        returned.response = Response(TRUE, LogsOf(container[Last]), NoError)

\* an execution has returned success=true with the logs of its container
C10_Witness ==
    /\ Last # 0
    /\ returned.result = 0
    /\ container[Last] # 0
    /\ returned.response = Response(TRUE, LogsOf(container[Last]), NoError)

\* C11 as claimed: an execution whose container.wait returned a status c other
\* than 0 returns success=false with the logs of its container as output and
\* an error text that contains c.
C11_NonZeroExitFails ==
    Last # 0 /\ returned.result \in ExitCodes \ {0} =>
        /\ ~returned.response.success
        /\ returned.response.output = LogsOf(container[Last])
        /\ returned.response.error.tag = "Exit code: "
        /\ returned.response.error.code = returned.result

\* C11 amended: an execution whose container.wait returned a status c other
\* than 0, whose logs were captured (no exception reached the inner handler)
\* and whose workspace was deleted returns success=false with the logs of its
\* container as output and an error text that contains c.
C11_NonZeroExitFailsUnlessInternalError ==
    /\ Last # 0
    /\ returned.result \in ExitCodes \ {0}
    /\ returned.exc = ""
    /\ tmpdir[Last] = 0
    => /\ ~returned.response.success
       /\ returned.response.output = LogsOf(container[Last])
       /\ returned.response.error.tag = "Exit code: "
       /\ returned.response.error.code = returned.result

\* an execution has returned the failure of a program that ended with status 1
C11_Witness ==
    /\ Last # 0
    /\ returned.result = 1
    /\ container[Last] # 0
    /\ returned.response = Response(FALSE, LogsOf(container[Last]), ExitCodeError(1))

\* the work items the pool holds or runs for request r
Allocated(r) ==
    \/ \E i \in DOMAIN work_queue : work_queue[i] = r
    \/ InFlight(r)
    \/ tmpdir[r] # 0
    \/ container[r] # 0

\* C12: a request whose execute call has raised holds no resource, when the
\* exception is raised and ever after: no work item of it is in the pool, no
\* worker runs it, it has no workspace and no container, and it gets no
\* result.
C12_RaisesBeforeAllocation ==
    \A r \in Requests :
        pc[r] = "raised" => ~Allocated(r) /\ delivered[r] = 0

\* an execute call has raised while another request holds a worker, a
\* workspace and a container
C12_Witness ==
    \E r, q \in Requests :
        /\ pc[r] = "raised"
        /\ pc[q] = "wait"
        /\ tmpdir[q] # 0
        /\ container[q] # 0
        /\ busy > 0

\* containers that SandboxRunner has started and that are terminal but not
\* removed
ManagedExited == {c \in ContainerIds : cstatus[c] = "exited"}

C14_SweepLeavesForeignContainers ==
    [][Cleanup => \A c \in ForeignIds : cstatus'[c] = cstatus[c]]_vars

\* the state of the program that a call of cleanup() can change
ProgramState ==
    <<client, executor_shutdown, work_queue, busy, pc, tmpdir, dirs, container,
      cstatus, cached>>

\* C15: a call of cleanup() while no container is exited removes nothing and
\* leaves the containers of the daemon as they are, and a call after the
\* first (the pool is shut down already) leaves the whole state of the
\* program as it found it.
C15_SweepIdempotent ==
    [][Cleanup /\ (\A c \in DOMAIN cstatus : cstatus[c] # "exited")
         => /\ cstatus' = cstatus
            /\ executor_shutdown' = (executor_shutdown \/ client)
            /\ executor_shutdown => ProgramState' = ProgramState]_vars

\* cleanup() has run, no container is exited and containers run that the next
\* call must leave alone
C15_Witness ==
    /\ executor_shutdown
    /\ \A c \in DOMAIN cstatus : cstatus[c] # "exited"
    /\ \E c \in ContainerIds : cstatus[c] = "running"

\* C16: a call of cleanup() in which the removal of a listed container fails
\* logs the failure, and removes the other listed containers.
C16_RemoveFailureLogged ==
    [][Cleanup /\ (\E c \in DOMAIN cstatus :
                      cstatus[c] = "exited" /\ cstatus'[c] = "exited")
         => cleanup_log' # NoLog]_vars

\* C17: the startup handler of the application runs the sweep, and so does
\* the shutdown handler.
C17_SweepAtStartupAndShutdown ==
    [][/\ phase = "starting" /\ phase' = "serving" => Sweep
       /\ phase = "serving" /\ phase' = "stopped" => Sweep]_vars

\* the results of an execution whose pull has failed
PullFailures == {OuterExcept("ImageNotFound"), OuterExcept("APIError")}

\* C18 as claimed: an execution that returns from a failing pull returns
\* success=false with the error of the pull, having started no container and
\* pulled once; where the registry does not have the image no execution gets
\* past the pull.
C18_PullFailureFails ==
    /\ Last # 0 /\ returned.at = "images_pull" =>
          /\ returned.response \in PullFailures
          /\ container[Last] = 0
          /\ pc[Last] = "done"
    /\ ~registry_has_image =>
          \A r \in Requests :
              /\ container[r] = 0
              /\ pc[r] \notin {"containers_run", "wait", "logs", "stop"}

\* C18 amended: the same, for the executions whose workspace is deleted; one
\* whose deletion of the workspace fails returns the error of the deletion.
C18_PullFailureFailsUnlessDeletionFails ==
    /\ Last # 0 /\ returned.at = "images_pull" =>
          /\ tmpdir[Last] = 0 => returned.response \in PullFailures
          /\ tmpdir[Last] # 0 => returned.response = OuterExcept("OSError")
          /\ container[Last] = 0
          /\ pc[Last] = "done"
    /\ ~registry_has_image =>
          \A r \in Requests :
              /\ container[r] = 0
              /\ pc[r] \notin {"containers_run", "wait", "logs", "stop"}

\* an execution has returned the failure of its pull of an image that is
\* neither cached nor in the registry
C18_Witness ==
    /\ Last # 0
    /\ returned.at = "images_pull"
    /\ ~cached
    /\ ~registry_has_image
    /\ returned.response = OuterExcept("ImageNotFound")
    /\ tmpdir[Last] = 0

\* ------------------------------------------------------------------------
\* The runtime catalog: _get_image_for_language, _get_command_for_language
\* and _get_file_extension.  A language tag is the sequence of its
\* characters; any other string is the sequence of the pieces it is put
\* together from, so that an f-string is a concatenation.

UpperCase ==
    <<"A", "B", "C", "D", "E", "F", "G", "H", "I", "J", "K", "L", "M",
      "N", "O", "P", "Q", "R", "S", "T", "U", "V", "W", "X", "Y", "Z">>

LowerCase ==
    <<"a", "b", "c", "d", "e", "f", "g", "h", "i", "j", "k", "l", "m",
      "n", "o", "p", "q", "r", "s", "t", "u", "v", "w", "x", "y", "z">>

Letters == DOMAIN UpperCase

\* str.lower() on one character
lower_char(ch) ==
    IF \E i \in Letters : UpperCase[i] = ch
    THEN LowerCase[CHOOSE i \in Letters : UpperCase[i] = ch]
    ELSE ch

\* str.upper() on one character
upper_char(ch) ==
    IF \E i \in Letters : LowerCase[i] = ch
    THEN UpperCase[CHOOSE i \in Letters : LowerCase[i] = ch]
    ELSE ch

\* a lookup that takes the tag as it is written
no_lower(s) == s

\* language.lower()
lower(s) == [i \in DOMAIN s |-> lower_char(s[i])]

\* the keys of the three dictionaries
python == <<"p", "y", "t", "h", "o", "n">>
javascript == <<"j", "a", "v", "a", "s", "c", "r", "i", "p", "t">>
typescript == <<"t", "y", "p", "e", "s", "c", "r", "i", "p", "t">>
java == <<"j", "a", "v", "a">>
go == <<"g", "o">>
rust == <<"r", "u", "s", "t">>
ruby == <<"r", "u", "b", "y">>
php == <<"p", "h", "p">>

SupportedTags == {python, javascript, typescript, java, go, rust, ruby, php}

\* tags that are no key of the dictionaries in any letter case
OtherTags ==
    { <<>>,
      <<"c">>,
      <<"p", "y">>,
      <<"j", "s">>,
      <<"n", "o", "d", "e">>,
      <<"p", "e", "r", "l">>,
      <<"p", "y", "t", "h", "o", "n", "3">>,
      <<" ", "p", "y", "t", "h", "o", "n">>,
      <<"j", "a", "v", "a", " ">>,
      <<"g", "o", "l", "a", "n", "g">> }

\* the tag t in every letter case
Spellings(t) ==
    { [i \in DOMAIN t |-> IF i \in U THEN upper_char(t[i]) ELSE t[i]] :
        U \in SUBSET DOMAIN t }

\* the language tags a request can carry
LanguageTags == UNION { Spellings(t) : t \in SupportedTags \cup OtherTags }

\* dict.get(key, default)
get(d, key, default) == IF key \in DOMAIN d THEN d[key] ELSE default

images ==
    (python :> "python:3.11-slim") @@
    (javascript :> "node:18-alpine") @@
    (typescript :> "node:18-alpine") @@
    (java :> "openjdk:17-jdk-slim") @@
    (go :> "golang:1.21-alpine") @@
    (rust :> "rust:1.75-slim") @@
    (ruby :> "ruby:3.2-slim") @@
    (php :> "php:8.2-cli")

get_image_for_language(l) == get(images, lower(l), "python:3.11-slim")

extensions ==
    (python :> <<".py">>) @@
    (javascript :> <<".js">>) @@
    (typescript :> <<".ts">>) @@
    (java :> <<".java">>) @@
    (go :> <<".go">>) @@
    (rust :> <<".rs">>) @@
    (ruby :> <<".rb">>) @@
    (php :> <<".php">>)

\* a catalog whose default extension is not that of the default runtime
get_file_extension_with_other_default(l) == get(extensions, lower(l), <<".txt">>)

get_file_extension(l) == get(extensions, lower(l), <<".py">>)

\* f"code{ext}"
code_file_name(ext) == <<"code">> \o ext

\* str.replace(old, new), where old is one piece of s
RECURSIVE replace(_, _, _)
replace(s, old, new) ==
    IF s = <<>>
    THEN <<>>
    ELSE (IF Head(s) = old THEN new ELSE <<Head(s)>>) \o replace(Tail(s), old, new)

commands(filename) ==
    (python :> << <<"python">>, filename >>) @@
    (javascript :> << <<"node">>, filename >>) @@
    (ruby :> << <<"ruby">>, filename >>) @@
    (php :> << <<"php">>, filename >>) @@
    (go :> << <<"go">>, <<"run">>, filename >>)

get_command_for_language(l, filename) ==
    IF lower(l) = rust
    THEN << <<"/bin/sh">>, <<"-c">>,
            <<"rustc", " ">> \o filename \o <<" ", "&&", " ", "./code">> >>
    ELSE IF lower(l) = java
    THEN LET class_name == replace(filename, ".java", <<>>)
         IN  << <<"/bin/sh">>, <<"-c">>,
                <<"javac", " ">> \o filename \o
                    <<" ", "&&", " ", "java", " ">> \o class_name >>
    ELSE IF lower(l) = typescript
    THEN << <<"/bin/sh">>, <<"-c">>,
            <<"npx", " ", "--yes", " ", "ts-node", " ">> \o filename >>
    ELSE get(commands(filename), lower(l), << <<"python">>, filename >>)

\* ext = self._get_file_extension(language)
GetFileExtension ==
    /\ "extension" \notin looked_up
    /\ extension' = get_file_extension(language)
    /\ looked_up' = looked_up \cup {"extension"}
    /\ UNCHANGED <<language, image, command>>
    /\ UNCHANGED sandbox_vars
    /\ UNCHANGED ws_vars

\* image = self._get_image_for_language(language)
GetImage ==
    /\ "image" \notin looked_up
    /\ image' = get_image_for_language(language)
    /\ looked_up' = looked_up \cup {"image"}
    /\ UNCHANGED <<language, extension, command>>
    /\ UNCHANGED sandbox_vars
    /\ UNCHANGED ws_vars

\* command = self._get_command_for_language(language, f"code{ext}")
GetCommand ==
    /\ "extension" \in looked_up
    /\ "command" \notin looked_up
    /\ command' = get_command_for_language(language, code_file_name(extension))
    /\ looked_up' = looked_up \cup {"command"}
    /\ UNCHANGED <<language, image, extension>>
    /\ UNCHANGED sandbox_vars
    /\ UNCHANGED ws_vars

\* the lookups of one call, for every language tag
CatalogInit ==
    /\ InitSandbox
    /\ NoTimeoutSupplied
    /\ settings = DefaultSettings
    /\ client
    /\ registry_has_image
    /\ cstatus = [c \in ContainerIds |-> "absent"]
    /\ phase = "serving"
    /\ language \in LanguageTags
    /\ image = ""
    /\ extension = <<>>
    /\ command = <<>>
    /\ looked_up = {}

CatalogNext == GetFileExtension \/ GetImage \/ GetCommand

CatalogSpec == CatalogInit /\ [][CatalogNext]_vars

\* l is the tag t in some letter case
IsSpelling(l, t) ==
    /\ Len(l) = Len(t)
    /\ \A i \in DOMAIN t : l[i] \in {t[i], upper_char(t[i])}

\* the program that runs a file of each language
Toolchain ==
    (python :> "python") @@
    (javascript :> "node") @@
    (typescript :> "ts-node") @@
    (java :> "javac") @@
    (go :> "go") @@
    (rust :> "rustc") @@
    (ruby :> "ruby") @@
    (php :> "php")

\* the words of a command, one after the other
RECURSIVE Flat(_)
Flat(argv) == IF argv = <<>> THEN <<>> ELSE Head(argv) \o Flat(Tail(argv))

\* the command names the tool and, after it, the file
InvokesOn(argv, tool, file) ==
    LET f == Flat(argv)
    IN  \E i \in DOMAIN f :
            /\ f[i] = tool
            /\ \E j \in DOMAIN f :
                   /\ j > i
                   /\ j + Len(file) - 1 <= Len(f)
                   /\ SubSeq(f, j, j + Len(file) - 1) = file

AllLookups == {"image", "extension", "command"}

\* C19: for every supported language tag, written in any letter case, each
\* lookup returns that language's own entry: a non-empty image reference, a
\* non-empty file extension, and a command that names that language's
\* toolchain followed by the file "code" with that extension.
C19_SupportedTagOwnRuntime ==
    \A t \in SupportedTags :
        IsSpelling(language, t) =>
            /\ "image" \in looked_up => image = images[t] /\ image # ""
            /\ "extension" \in looked_up =>
                   /\ extension = extensions[t]
                   /\ extension # <<>>
                   /\ \A i \in DOMAIN extension : extension[i] # ""
            /\ "command" \in looked_up =>
                   InvokesOn(command, Toolchain[t], code_file_name(extensions[t]))

C19_Witness ==
    /\ language = <<"J", "a", "V", "A">>
    /\ looked_up = AllLookups
    /\ image = "openjdk:17-jdk-slim"
    /\ extension = <<".java">>
    /\ Len(command) = Len(<<"/bin/sh", "-c", "script">>)

\* l is no supported tag in any letter case
Unsupported(l) == \A t \in SupportedTags : ~IsSpelling(l, t)

\* C20: for a language tag that matches no supported language, image, file
\* extension and command are those of the python runtime: the python image,
\* the extension .py and the command python code.py.
C20_UnsupportedTagFallsBack ==
    Unsupported(language) =>
        /\ "image" \in looked_up => image = "python:3.11-slim"
        /\ "extension" \in looked_up => extension = <<".py">>
        /\ "command" \in looked_up =>
               command = << <<"python">>, <<"code", ".py">> >>

C20_Witness ==
    /\ language = <<"P", "e", "r", "l">>
    /\ looked_up = AllLookups
    /\ image = "python:3.11-slim"
    /\ extension = <<".py">>
    /\ command # <<>>

\* C21: every container the service has started was started with the memory
\* ceiling and the CPU quota of the configuration, and with networking
\* disabled exactly when SANDBOX_NETWORK_ENABLED is false.
C21_LimitsApplied ==
    \A c \in ContainerIds :
        cstatus[c] # "absent" =>
            /\ limits[c].mem_limit = settings.SANDBOX_MEMORY_LIMIT
            /\ limits[c].mem_limit # ""
            /\ limits[c].cpu_quota = settings.SANDBOX_CPU_LIMIT * 100
            /\ limits[c].network_disabled = ~settings.SANDBOX_NETWORK_ENABLED

\* two containers run under the configuration that disables the network
C21_Witness ==
    /\ ~settings.SANDBOX_NETWORK_ENABLED
    /\ Cardinality(Running) = SANDBOX_MAX_WORKERS
    /\ \A c \in Running : limits[c].network_disabled

\* C22: the timeout that container.wait is called with is the timeout the
\* request supplied, whatever its value, 0 included, and the configured
\* MAX_EXECUTION_TIME only when the request supplied none.
C22_OwnTimeoutEnforced ==
    \A r \in Requests :
        timeout[r].wait_timeout # None =>
            timeout[r].wait_timeout =
                IF timeout[r].supplied # None
                THEN timeout[r].supplied
                ELSE Some(settings.MAX_EXECUTION_TIME)

\* request r takes a step from a position other than p to the position p
Enters(r, p) == pc[r] # p /\ pc'[r] = p

\* C23: the phases of an execution follow one another in the order Queued,
\* Preparing, (Pulling), Running, outcome, Cleaned: the image is looked up
\* once the workspace with the code file exists, pulled only after the lookup
\* has missed, a container is started only with the image available, and
\* the call returns only with its container gone (stated for the returns in
\* which no container.remove() and no deletion of the workspace has failed).
C23_PhaseOrder ==
    [][\A r \in Requests :
         /\ Enters(r, "images_get") => pc[r] = "queued" /\ tmpdir'[r] \in dirs'
         /\ Enters(r, "images_pull") => pc[r] = "images_get" /\ ~cached
         /\ Enters(r, "containers_run") =>
                pc[r] \in {"images_get", "images_pull"} /\ cached'
         /\ Enters(r, "wait") => pc[r] = "containers_run" /\ cached
         /\ Enters(r, "logs") => pc[r] = "wait"
         /\ Enters(r, "stop") => pc[r] \in {"wait", "logs"}
         /\ Enters(r, "done") /\ ~returned'.remove_failed /\ tmpdir'[r] = 0 =>
                container[r] = 0 \/ cstatus'[container[r]] = "removed"]_vars

\* C24: no blocking call on the Docker client is made on the thread of the
\* event loop, neither by execute nor by cleanup() in the shutdown handler.
C24_NoDockerCallOnEventLoop == loop_calls = {}

\* the messages of the kind "coding" (the status "Executing code...") or
\* "result" that the handler of w has made and that were sent on WebSocket v
Seen(v, w, kind) ==
    {i \in DOMAIN sent[v] :
        /\ sent[v][i].from = w
        /\ IF kind = "coding"
           THEN sent[v][i].type = "status" /\ sent[v][i].data = "coding"
           ELSE sent[v][i].type = "result"}

\* the number of those messages that some client of the session has got
Observed(w, kind) ==
    Cardinality(UNION {{<<v, i>> : i \in Seen(v, w, kind)} : v \in Sockets})

\* C25: for every "execute" message that a connected client has sent, the
\* status message has been sent to the session before sandbox.execute
\* starts, and one result message once the handler has got the result and
\* has passed the sending of it.
C25_PhasesObservable ==
    \A w \in Sockets :
        ws[w].open =>
            /\ ws[w].pc \in {"execute", "result"} =>
                   Observed(w, "coding") = ws[w].executes
            /\ ws[w].pc = "receive" =>
                   Observed(w, "result") = ws[w].executes

\* C30: the entry of a session is deleted only when the WebSocket that it
\* holds disconnects: a WebSocket loses its entry only to a newer connection
\* of the session or when its own handler ends.
C30_OwnRegistrationOnly ==
    [][\A sid \in SessionIds :
         LET w == active_connections[sid]
         IN  w # 0 /\ active_connections'[sid] # w =>
                 \/ active_connections'[sid] # 0
                 \/ ws'[w].pc = "ended"]_vars

\* request r is in flight with a container that has exited and whose logs it
\* has not captured yet
AwaitsLogs(r) ==
    /\ pc[r] \in {"wait", "logs"}
    /\ container[r] # 0
    /\ cstatus[container[r]] = "exited"

\* C26: a call of cleanup() removes no container of an execution in flight
\* that has not captured the logs of it yet, and no execution whose
\* container.wait returned status 0 returns the failure of a container that
\* was not found.
C26_SweepSparesInFlight ==
    /\ [][Cleanup => \A r \in Requests :
                        AwaitsLogs(r) => cstatus'[container[r]] = "exited"]_vars
    /\ [](Last # 0 /\ returned.result = 0 => returned.exc # "NotFound")

\* C27: an execution returns the timeout marker only if its container.wait
\* gave up on a container that was still running: the error text of any other
\* exception of container.wait or container.logs does not carry the marker.
C27_TimeoutMarkerOnlyForTimeout ==
    Last # 0 /\ returned.response.error.tag = "Execution timeout or error: "
        => returned.exc = "ReadTimeout"

\* the call that has just returned had computed its result from the exit
\* status of its container: wait returned a status, the logs were captured
HadComputedResult ==
    /\ Last # 0
    /\ returned.at = "logs"
    /\ returned.result \in ExitCodes
    /\ returned.exc = ""

\* the response is the outcome of the exit status `status` of container c
IsOutcomeOf(resp, status, c) ==
    /\ resp.set
    /\ resp.success = (status = 0)
    /\ resp.output = LogsOf(c)
    /\ resp.error.tag = (IF status = 0 THEN "None" ELSE "Exit code: ")
    /\ resp.error.code = status

\* C28 as claimed: the result computed from the exit status of the container
\* is the result returned, whether or not the deletion of the workspace
\* fails.
C28_ComputedResultReturned ==
    HadComputedResult =>
        IsOutcomeOf(returned.response, returned.result, container[Last])

\* C28 amended: the result computed from the exit status of the container is
\* the result returned when the deletion of the workspace succeeds; when it
\* fails, the call returns success=false with the error of the deletion.
C28_ComputedResultReturnedUnlessDeletionFails ==
    HadComputedResult =>
        IF tmpdir[Last] = 0
        THEN IsOutcomeOf(returned.response, returned.result, container[Last])
        ELSE returned.response = OuterExcept("OSError")

\* the container exited with status 0, its logs were captured, the deletion
\* of the workspace failed and the call has returned the failure
C28_Witness ==
    /\ HadComputedResult
    /\ returned.result = 0
    /\ tmpdir[Last] # 0
    /\ ~returned.response.success
    /\ returned.response.error = RawError("OSError")

\* C29: in every response that _execute_sync returns, error is None exactly
\* when success is true, and success is true only if the call started a
\* container, container.wait returned status 0 for it and its logs were
\* captured and are the output.
C29_SuccessIffNoError ==
    Last # 0 =>
        /\ returned.response.set
        /\ (returned.response.error = NoError) <=> returned.response.success
        /\ returned.response.success =>
               /\ container[Last] # 0
               /\ returned.result = 0
               /\ returned.exc = ""
               /\ returned.at = "logs"
               /\ returned.response.output = LogsOf(container[Last])

\* a call whose containers.run failed has returned a failure with an error
\* and without a container
C29_Witness ==
    /\ Last # 0
    /\ returned.at = "containers_run"
    /\ container[Last] = 0
    /\ ~returned.response.success
    /\ returned.response.error # NoError

====
